---- MODULE Spec2Model ----
(***************************************************************************)
(* YAMLetMeSee: indentation guides for YAML documents.                     *)
(*                                                                         *)
(* The module models src/src/extension.ts.  A document is a sequence of    *)
(* lines, a line is a sequence of one-character strings.  Line numbers are *)
(* 0-based as in the editor API: lineAt(doc, n) is the (n+1)-th element.   *)
(* updateDecorations is one action; the values of its locals at the end of *)
(* the last run are kept in variables so that they can be observed.        *)
(***************************************************************************)
EXTENDS Integers, Sequences, FiniteSets, TLC

VARIABLES
    document,                  \* activeEditor.document, the lines of text
    cursorLine,                \* activeEditor.selection.active.line
    colors,                    \* configuration 'indentationColors'
    enabled,                   \* configuration 'enabled'
    languageId,                \* document.languageId
    status,                    \* "inactive" | "active" | "failed" (activate threw)
    updateTimeout,             \* TRUE while a debounce timer is pending
    lastColorsHash,            \* hash of the configuration of the cached decorations
    inactiveDecorationsByCol,  \* column -> decoration type
    activeDecorationsByCol,    \* column -> decoration type
    shownInactive,             \* column -> ranges last set on the inactive decoration
    shownActive,               \* column -> ranges last set on the active decoration
    indentColumns,             \* local of the last run: the structural columns
    visits,                    \* local of the last run: bodies of addAncestorColumns run
    columnRanges,              \* local of the last run: column -> ranges
    activeIndentColumn,        \* local of the last run
    activeBlockStart,          \* local of the last run
    activeBlockEnd,            \* local of the last run
    colorIndexes,              \* local of the last run: column -> colorIndex computed
    threw,                     \* the last run ended in an uncaught TypeError
    line,                      \* input of the indentation function (SpecIndent)
    indent                     \* its result, -1 before it has run (SpecIndent)

vars == <<document, cursorLine, colors, enabled, languageId, status,
          updateTimeout, lastColorsHash, inactiveDecorationsByCol,
          activeDecorationsByCol, shownInactive, shownActive, indentColumns,
          visits, columnRanges, activeIndentColumn, activeBlockStart,
          activeBlockEnd, colorIndexes, threw, line, indent>>

(***************************************************************************)
(* Bounds.                                                                 *)
(***************************************************************************)
MaxLines == 4
MaxIndent == 1
MaxLineLen == 5
MaxEditLines == 2

(***************************************************************************)
(* Program constants.                                                      *)
(***************************************************************************)
TabWidth == 4
LevelWidth == 2
DefaultSpacesPerIndent == 1

DefaultColors == <<"#ff0000", "#ff8000", "#ffff00", "#00ff00", "#0080ff", "#8000ff">>

Chars == {" ", "\t", "-", "a"}

Whitespace == {" ", "\t"}

EmptyMap == [c \in {} |-> <<>>]

(***************************************************************************)
(* Indentation model.                                                      *)
(***************************************************************************)
\* mutant: the list marker and its space are counted as indentation
RECURSIVE IndentScanCountsMarker(_, _, _)
IndentScanCountsMarker(text, i, acc) ==
    IF i > Len(text) THEN acc
    ELSE IF text[i] = " " THEN IndentScanCountsMarker(text, i + 1, acc + 1)
    ELSE IF text[i] = "\t" THEN IndentScanCountsMarker(text, i + 1, acc + TabWidth)
    ELSE IF text[i] = "-" /\ i + 1 <= Len(text) /\ text[i + 1] = " "
         THEN IndentScanCountsMarker(text, i + 2, acc + 2)
    ELSE acc

RECURSIVE IndentScan(_, _, _)
IndentScan(text, i, acc) ==
    IF i > Len(text) THEN acc
    ELSE IF text[i] = " " THEN IndentScan(text, i + 1, acc + 1)
    ELSE IF text[i] = "\t" THEN IndentScan(text, i + 1, acc + TabWidth)
    ELSE IF text[i] = "-" /\ i + 1 <= Len(text) /\ text[i + 1] = " " THEN acc
    ELSE acc

getEffectiveIndentColumn(text) == IndentScan(text, 1, 0)

getIndentationLevel(text) == getEffectiveIndentColumn(text) \div LevelWidth

getIndentationColumn(level) == level * LevelWidth

\* text.trim().length === 0
IsBlank(text) == \A i \in 1..Len(text) : text[i] \in Whitespace

lineCount(doc) == Len(doc)

lineAt(doc, n) == doc[n + 1]

(***************************************************************************)
(* Hierarchy walker.                                                       *)
(***************************************************************************)
RECURSIVE NestedScan(_, _, _)
NestedScan(doc, i, currentIndent) ==
    IF i >= lineCount(doc) THEN FALSE
    ELSE IF IsBlank(lineAt(doc, i)) THEN NestedScan(doc, i + 1, currentIndent)
    ELSE getEffectiveIndentColumn(lineAt(doc, i)) > currentIndent

hasNestedContent(doc, lineNumber) ==
    IF lineNumber >= lineCount(doc) - 1 THEN FALSE
    ELSE IF IsBlank(lineAt(doc, lineNumber)) THEN FALSE
    ELSE NestedScan(doc, lineNumber + 1,
                    getEffectiveIndentColumn(lineAt(doc, lineNumber)))

\* mutant: a preceding line of the same column is taken for the parent
RECURSIVE ParentScanSameColumn(_, _, _)
ParentScanSameColumn(doc, i, currentIndent) ==
    IF i < 0 THEN -1
    ELSE IF IsBlank(lineAt(doc, i)) THEN ParentScanSameColumn(doc, i - 1, currentIndent)
    ELSE IF getEffectiveIndentColumn(lineAt(doc, i)) <= currentIndent
         THEN getEffectiveIndentColumn(lineAt(doc, i))
    ELSE ParentScanSameColumn(doc, i - 1, currentIndent)

RECURSIVE ParentScan(_, _, _)
ParentScan(doc, i, currentIndent) ==
    IF i < 0 THEN -1
    ELSE IF IsBlank(lineAt(doc, i)) THEN ParentScan(doc, i - 1, currentIndent)
    ELSE IF getEffectiveIndentColumn(lineAt(doc, i)) < currentIndent
         THEN getEffectiveIndentColumn(lineAt(doc, i))
    ELSE ParentScan(doc, i - 1, currentIndent)

getParentColumn(doc, lineNumber) ==
    IF lineNumber <= 0 THEN -1
    ELSE IF getEffectiveIndentColumn(lineAt(doc, lineNumber)) = 0 THEN -1
    ELSE ParentScan(doc, lineNumber - 1,
                    getEffectiveIndentColumn(lineAt(doc, lineNumber)))

getParentIndentationLevel(doc, lineNumber) ==
    IF getParentColumn(doc, lineNumber) < 0 THEN -1
    ELSE getParentColumn(doc, lineNumber) \div LevelWidth

(***************************************************************************)
(* Column collector.  The state of the walk is the pair of sets of the     *)
(* code plus a count of the bodies executed past the processedLines guard. *)
(***************************************************************************)
RECURSIVE FindLineWithIndent(_, _, _)
FindLineWithIndent(doc, j, parentCol) ==
    IF j < 0 THEN -1
    ELSE IF IsBlank(lineAt(doc, j)) THEN FindLineWithIndent(doc, j - 1, parentCol)
    ELSE IF getEffectiveIndentColumn(lineAt(doc, j)) = parentCol THEN j
    ELSE FindLineWithIndent(doc, j - 1, parentCol)

RECURSIVE addAncestorColumns(_, _, _)
addAncestorColumns(doc, lineNum, st) ==
    IF lineNum \in st.processedLines THEN st
    ELSE LET parentCol == getParentColumn(doc, lineNum)
             st1 == [st EXCEPT !.processedLines = @ \cup {lineNum},
                               !.visits = @ + 1]
         IN  IF parentCol >= 0
             THEN LET st2 == [st1 EXCEPT !.indentColumns = @ \cup {parentCol}]
                      j == FindLineWithIndent(doc, lineNum - 1, parentCol)
                  IN  IF j >= 0 THEN addAncestorColumns(doc, j, st2) ELSE st2
             ELSE st1

RECURSIVE CollectLoop(_, _, _)
CollectLoop(doc, i, st) ==
    IF i >= lineCount(doc) THEN st
    ELSE IF IsBlank(lineAt(doc, i)) THEN CollectLoop(doc, i + 1, st)
    ELSE CollectLoop(doc, i + 1, addAncestorColumns(doc, i, st))

CollectColumns(doc) ==
    LET st == CollectLoop(doc, 0, [indentColumns |-> {}, processedLines |-> {},
                                   visits |-> 0])
    IN  [st EXCEPT !.indentColumns = @ \cup {0}]

\* Array.from(set).sort((a, b) => a - b)
RECURSIVE SortedCols(_)
SortedCols(S) ==
    IF S = {} THEN <<>>
    ELSE LET m == CHOOSE x \in S : \A y \in S : x <= y
         IN  <<m>> \o SortedCols(S \ {m})

(***************************************************************************)
(* Range builder.  A range is new vscode.Range(k, col, k, col + width).    *)
(***************************************************************************)
Range(k, col, width) == [line |-> k, start |-> col, end |-> col + width]

\* mutant: a block ends only at a strictly shallower line
RECURSIVE BlockEndScanPastSiblings(_, _, _, _)
BlockEndScanPastSiblings(doc, j, col, blockEnd) ==
    IF j >= lineCount(doc) THEN blockEnd
    ELSE IF IsBlank(lineAt(doc, j)) THEN BlockEndScanPastSiblings(doc, j + 1, col, j)
    ELSE IF getEffectiveIndentColumn(lineAt(doc, j)) < col THEN blockEnd
    ELSE BlockEndScanPastSiblings(doc, j + 1, col, j)

\* mutant: blank lines are passed over without extending the block
RECURSIVE BlockEndScanDropsBlanks(_, _, _, _)
BlockEndScanDropsBlanks(doc, j, col, blockEnd) ==
    IF j >= lineCount(doc) THEN blockEnd
    ELSE IF IsBlank(lineAt(doc, j)) THEN BlockEndScanDropsBlanks(doc, j + 1, col, blockEnd)
    ELSE IF getEffectiveIndentColumn(lineAt(doc, j)) <= col THEN blockEnd
    ELSE BlockEndScanDropsBlanks(doc, j + 1, col, j)

RECURSIVE BlockEndScan(_, _, _, _)
BlockEndScan(doc, j, col, blockEnd) ==
    IF j >= lineCount(doc) THEN blockEnd
    ELSE IF IsBlank(lineAt(doc, j)) THEN BlockEndScan(doc, j + 1, col, j)
    ELSE IF getEffectiveIndentColumn(lineAt(doc, j)) <= col THEN blockEnd
    ELSE BlockEndScan(doc, j + 1, col, j)

BlockRanges(i, blockEnd, col, width) ==
    [n \in 1..(blockEnd - i) |-> Range(i + n, col, width)]

RECURSIVE ColumnScan(_, _, _, _, _)
ColumnScan(doc, i, col, width, ranges) ==
    IF i >= lineCount(doc) THEN ranges
    ELSE IF IsBlank(lineAt(doc, i)) THEN ColumnScan(doc, i + 1, col, width, ranges)
    ELSE IF getEffectiveIndentColumn(lineAt(doc, i)) = col
         THEN ColumnScan(doc, i + 1, col, width,
                         ranges \o BlockRanges(i, BlockEndScan(doc, i + 1, col, i),
                                               col, width))
    ELSE ColumnScan(doc, i + 1, col, width, ranges)

\* mutant: a column with a single range is omitted
BuildColumnRangesDropSingle(doc, cols, width) ==
    LET all == [c \in cols |-> ColumnScan(doc, 0, c, width, <<>>)]
    IN  [c \in {d \in cols : Len(all[d]) > 1} |-> all[c]]

BuildColumnRanges(doc, cols, width) ==
    LET all == [c \in cols |-> ColumnScan(doc, 0, c, width, <<>>)]
    IN  [c \in {d \in cols : Len(all[d]) > 0} |-> all[c]]

(***************************************************************************)
(* Active block resolver.                                                  *)
(***************************************************************************)
\* mutant: a blank line ends the forward scan
RECURSIVE ForwardScanStopsAtBlank(_, _, _, _)
ForwardScanStopsAtBlank(doc, i, col, blockEnd) ==
    IF i >= lineCount(doc) THEN blockEnd
    ELSE IF IsBlank(lineAt(doc, i)) THEN blockEnd
    ELSE IF getEffectiveIndentColumn(lineAt(doc, i)) > col
         THEN ForwardScanStopsAtBlank(doc, i + 1, col, i)
    ELSE blockEnd

RECURSIVE ForwardScan(_, _, _, _)
ForwardScan(doc, i, col, blockEnd) ==
    IF i >= lineCount(doc) THEN blockEnd
    ELSE IF IsBlank(lineAt(doc, i)) THEN ForwardScan(doc, i + 1, col, blockEnd)
    ELSE IF getEffectiveIndentColumn(lineAt(doc, i)) > col
         THEN ForwardScan(doc, i + 1, col, i)
    ELSE blockEnd

RECURSIVE BackwardScan(_, _, _, _)
BackwardScan(doc, i, col, blockStart) ==
    IF i < 0 THEN blockStart
    ELSE IF IsBlank(lineAt(doc, i)) THEN BackwardScan(doc, i - 1, col, blockStart)
    ELSE IF getEffectiveIndentColumn(lineAt(doc, i)) > col
         THEN BackwardScan(doc, i - 1, col, i)
    ELSE blockStart

NoActiveBlock ==
    [activeIndentColumn |-> -1, activeBlockStart |-> -1, activeBlockEnd |-> -1]

ActiveColumnOf(doc, currentCursorLine) ==
    IF hasNestedContent(doc, currentCursorLine)
    THEN getIndentationColumn(getIndentationLevel(lineAt(doc, currentCursorLine)))
    ELSE IF getParentIndentationLevel(doc, currentCursorLine) >= 0
         THEN getIndentationColumn(getParentIndentationLevel(doc, currentCursorLine))
    ELSE -1

\* the body of the two guards of the cursor line
ActiveBlockAt(doc, currentCursorLine) ==
    LET col == ActiveColumnOf(doc, currentCursorLine)
    IN  IF col < 0 THEN NoActiveBlock
        ELSE IF hasNestedContent(doc, currentCursorLine)
        THEN [activeIndentColumn |-> col,
              activeBlockStart |-> currentCursorLine + 1,
              activeBlockEnd |-> ForwardScan(doc, currentCursorLine + 1, col,
                                             currentCursorLine)]
        ELSE [activeIndentColumn |-> col,
              activeBlockStart |-> BackwardScan(doc, currentCursorLine - 1, col,
                                                currentCursorLine),
              activeBlockEnd |-> ForwardScan(doc, currentCursorLine + 1, col,
                                             currentCursorLine)]

\* mutant: the cursor line is not tested for being blank
ResolveActiveBlockOnBlank(doc, currentCursorLine) ==
    IF ~(currentCursorLine >= 0 /\ currentCursorLine < lineCount(doc))
    THEN NoActiveBlock
    ELSE ActiveBlockAt(doc, currentCursorLine)

ResolveActiveBlock(doc, currentCursorLine) ==
    IF ~(currentCursorLine >= 0 /\ currentCursorLine < lineCount(doc))
    THEN NoActiveBlock
    ELSE IF IsBlank(lineAt(doc, currentCursorLine)) THEN NoActiveBlock
    ELSE ActiveBlockAt(doc, currentCursorLine)

(***************************************************************************)
(* Presentation: decoration types per column and what they display.        *)
(* A JavaScript number that may be fractional is kept as num/den, den 1 or *)
(* 2.  Opacities are in percent.                                           *)
(***************************************************************************)
InactiveOpacity == 8
ActiveOpacity == 40

\* (col / 2) % colors.length
ColorIndex(col, n) ==
    IF col % LevelWidth = 0
    THEN [num |-> (col \div LevelWidth) % n, den |-> 1]
    ELSE [num |-> col % (LevelWidth * n), den |-> LevelWidth]

Undefined == "undefined"

\* colors[colorIndex]: a property that is not an array index is undefined
ColorAt(colorList, idx) ==
    IF idx.den = 1 /\ idx.num < Len(colorList) THEN colorList[idx.num + 1]
    ELSE Undefined

\* color.startsWith('#') throws a TypeError when color is undefined
CreateThrows(color) == color = Undefined

createDecorationType(color, isActive) ==
    [backgroundColor |-> color,
     alpha |-> IF isActive THEN ActiveOpacity ELSE InactiveOpacity]

IsActiveRange(r, col, act) ==
    /\ col = act.activeIndentColumn
    /\ r.line >= act.activeBlockStart
    /\ r.line <= act.activeBlockEnd

Put(f, k, v) == [x \in DOMAIN f \cup {k} |-> IF x = k THEN v ELSE f[x]]

\* sortedColumns.forEach(col => ...); a throw ends the whole run
RECURSIVE ApplyLoop(_, _, _, _, _, _)
ApplyLoop(cols, k, ranges, act, colorList, ap) ==
    IF k > Len(cols) THEN ap
    ELSE LET col == cols[k]
             colorIndex == ColorIndex(col, Len(colorList))
             color == ColorAt(colorList, colorIndex)
             ap0 == [ap EXCEPT !.colorIndexes = Put(@, col, colorIndex)]
             needsCreate == col \notin DOMAIN ap.inactive \/ col \notin DOMAIN ap.active
         IN  IF needsCreate /\ CreateThrows(color)
             THEN [ap0 EXCEPT !.threw = TRUE]
             ELSE LET inact == IF col \in DOMAIN ap.inactive THEN ap.inactive
                               ELSE Put(ap.inactive, col,
                                        createDecorationType(color, FALSE))
                      actv == IF col \in DOMAIN ap.active THEN ap.active
                              ELSE Put(ap.active, col,
                                       createDecorationType(color, TRUE))
                      isAct(r) == IsActiveRange(r, col, act)
                      isInact(r) == ~IsActiveRange(r, col, act)
                  IN  ApplyLoop(cols, k + 1, ranges, act, colorList,
                         [ap0 EXCEPT !.inactive = inact,
                                     !.active = actv,
                                     !.shownInactive =
                                         Put(@, col, SelectSeq(ranges[col], isInact)),
                                     !.shownActive =
                                         Put(@, col, SelectSeq(ranges[col], isAct))])

\* mutant: columns that no longer have ranges keep what they display
ClearStaleKeepsShown(shown, cache, ranges) == shown

\* the two forEach loops that clear columns that no longer have ranges
ClearStale(shown, cache, ranges) ==
    [c \in DOMAIN shown \cup (DOMAIN cache \ DOMAIN ranges) |->
        IF c \in DOMAIN ranges THEN shown[c] ELSE <<>>]

\* JSON.stringify({ colors, inactiveOpacity, activeOpacity, spacesPerIndent })
ConfigHash(colorList) ==
    <<colorList, InactiveOpacity, ActiveOpacity, DefaultSpacesPerIndent>>

NoHash == <<>>

(***************************************************************************)
(* updateDecorations, the whole handler.                                   *)
(***************************************************************************)
clearAllDecorations ==
    /\ shownInactive' = [c \in DOMAIN inactiveDecorationsByCol |-> <<>>]
    /\ shownActive' = [c \in DOMAIN activeDecorationsByCol |-> <<>>]
    /\ UNCHANGED <<inactiveDecorationsByCol, activeDecorationsByCol, lastColorsHash,
                   indentColumns, visits, columnRanges, activeIndentColumn,
                   activeBlockStart, activeBlockEnd, colorIndexes>>
    /\ threw' = FALSE

updateDecorations ==
    IF ~enabled \/ languageId # "yaml" THEN clearAllDecorations
    ELSE \E st \in {CollectColumns(document)} :
         \E ranges \in {BuildColumnRanges(document, st.indentColumns,
                                          DefaultSpacesPerIndent)} :
         \E act \in {ResolveActiveBlock(document, cursorLine)} :
         \E dispose \in {ConfigHash(colors) # lastColorsHash} :
         \E ap \in {ApplyLoop(SortedCols(DOMAIN ranges), 1, ranges, act, colors,
                     [inactive |-> IF dispose THEN EmptyMap
                                   ELSE inactiveDecorationsByCol,
                      active |-> IF dispose THEN EmptyMap ELSE activeDecorationsByCol,
                      shownInactive |-> IF dispose THEN EmptyMap ELSE shownInactive,
                      shownActive |-> IF dispose THEN EmptyMap ELSE shownActive,
                      colorIndexes |-> EmptyMap,
                      threw |-> FALSE])} :
             /\ lastColorsHash' = ConfigHash(colors)
             /\ indentColumns' = st.indentColumns
             /\ visits' = st.visits
             /\ columnRanges' = ranges
             /\ activeIndentColumn' = act.activeIndentColumn
             /\ activeBlockStart' = act.activeBlockStart
             /\ activeBlockEnd' = act.activeBlockEnd
             /\ colorIndexes' = ap.colorIndexes
             /\ threw' = ap.threw
             /\ inactiveDecorationsByCol' = ap.inactive
             /\ activeDecorationsByCol' = ap.active
             /\ shownInactive' = IF ap.threw THEN ap.shownInactive
                                 ELSE ClearStale(ap.shownInactive, ap.inactive, ranges)
             /\ shownActive' = IF ap.threw THEN ap.shownActive
                               ELSE ClearStale(ap.shownActive, ap.active, ranges)

(***************************************************************************)
(* The documents and configurations explored.                              *)
(***************************************************************************)
Spaces(n) == [i \in 1..n |-> " "]

\* plain keys at indentation 0..MaxIndent, an empty line, a line of two spaces,
\* a list item under two spaces and a key under a tab
LineTexts ==
    {Spaces(n) \o <<"a">> : n \in 0..MaxIndent}
        \cup {<<>>, <<" ", " ">>, <<" ", " ", "-", " ", "a">>, <<"\t", "a">>}

Documents == UNION {[1..k -> LineTexts] : k \in 0..MaxLines}

\* a single colour and the default list
ColorLists == {SubSeq(DefaultColors, 1, k) : k \in {1, Len(DefaultColors)}}

Strings == UNION {[1..k -> Chars] : k \in 0..MaxLineLen}

NothingComputed ==
    /\ lastColorsHash = NoHash
    /\ inactiveDecorationsByCol = EmptyMap
    /\ activeDecorationsByCol = EmptyMap
    /\ shownInactive = EmptyMap
    /\ shownActive = EmptyMap
    /\ indentColumns = {}
    /\ visits = 0
    /\ columnRanges = EmptyMap
    /\ activeIndentColumn = -1
    /\ activeBlockStart = -1
    /\ activeBlockEnd = -1
    /\ colorIndexes = EmptyMap
    /\ threw = FALSE

Init ==
    /\ document \in Documents
    /\ cursorLine \in -1..Len(document)
    /\ colors \in ColorLists
    /\ enabled = TRUE
    /\ languageId = "yaml"
    /\ status = "inactive"
    /\ updateTimeout = FALSE
    /\ NothingComputed
    /\ line = <<>>
    /\ indent = -1

\* activate(): the initial updateDecorations, then the listeners are registered;
\* a throw of the initial run leaves the extension without listeners
Activate ==
    /\ status = "inactive"
    /\ updateDecorations
    /\ status' = IF threw' THEN "failed" ELSE "active"
    /\ UNCHANGED <<document, cursorLine, colors, enabled, languageId, updateTimeout,
                   line, indent>>

\* onDidChangeTextEditorSelection -> triggerUpdateDecorations
OnDidChangeTextEditorSelection(c) ==
    /\ status = "active"
    /\ c # cursorLine
    /\ cursorLine' = c
    /\ updateTimeout' = TRUE
    /\ UNCHANGED <<document, colors, enabled, languageId, status, lastColorsHash,
                   inactiveDecorationsByCol, activeDecorationsByCol, shownInactive,
                   shownActive, indentColumns, visits, columnRanges,
                   activeIndentColumn, activeBlockStart, activeBlockEnd,
                   colorIndexes, threw, line, indent>>

\* the debounce timer fires: setTimeout(updateDecorations, 10)
TimerFires ==
    /\ updateTimeout
    /\ updateTimeout' = FALSE
    /\ updateDecorations
    /\ UNCHANGED <<document, cursorLine, colors, enabled, languageId, status,
                   line, indent>>

Next ==
    \/ Activate
    \/ \E c \in -1..Len(document) : OnDidChangeTextEditorSelection(c)
    \/ TimerFires

Spec == Init /\ [][Next]_vars

(***************************************************************************)
(* The editor under edits, cursor moves and configuration changes.  The    *)
(* documents have 1..MaxEditLines lines and the cursor is on a line of the *)
(* document, as the editor keeps it.                                       *)
(***************************************************************************)
EditorLineTexts ==
    {<<"a">>, <<" ", "a">>, <<" ", " ", "-", " ", "a">>, <<"\t", "a">>}

EditorDocuments == UNION {[1..k -> EditorLineTexts] : k \in 1..MaxEditLines}

\* the documents one change event away: a line replaced, inserted or deleted
InsertLine(doc, i, text) == SubSeq(doc, 1, i) \o <<text>> \o SubSeq(doc, i + 1, Len(doc))

DeleteLine(doc, i) == SubSeq(doc, 1, i - 1) \o SubSeq(doc, i + 1, Len(doc))

Edits(doc) ==
    {[doc EXCEPT ![i] = text] : i \in 1..Len(doc), text \in EditorLineTexts}
        \cup {InsertLine(doc, i, text) :
                  i \in {j \in 0..Len(doc) : Len(doc) < MaxEditLines},
                  text \in EditorLineTexts}
        \cup {DeleteLine(doc, i) : i \in {j \in 1..Len(doc) : Len(doc) > 1}}

InitEditor ==
    /\ document \in EditorDocuments
    /\ cursorLine \in 0..(Len(document) - 1)
    /\ colors \in ColorLists
    /\ enabled \in BOOLEAN
    /\ languageId = "yaml"
    /\ status = "inactive"
    /\ updateTimeout = FALSE
    /\ NothingComputed
    /\ line = <<>>
    /\ indent = -1

\* onDidChangeTextDocument -> triggerUpdateDecorations; the editor keeps the
\* cursor on a line of the document
OnDidChangeTextDocument(doc) ==
    /\ status = "active"
    /\ doc # document
    /\ document' = doc
    /\ cursorLine' = IF cursorLine < Len(doc) THEN cursorLine ELSE Len(doc) - 1
    /\ updateTimeout' = TRUE
    /\ UNCHANGED <<colors, enabled, languageId, status, lastColorsHash,
                   inactiveDecorationsByCol, activeDecorationsByCol, shownInactive,
                   shownActive, indentColumns, visits, columnRanges,
                   activeIndentColumn, activeBlockStart, activeBlockEnd,
                   colorIndexes, threw, line, indent>>

\* onDidChangeConfiguration: lastColorsHash = ''; triggerUpdateDecorations()
OnDidChangeConfiguration(colorList, isEnabled) ==
    /\ status = "active"
    /\ colors' = colorList
    /\ enabled' = isEnabled
    /\ lastColorsHash' = NoHash
    /\ updateTimeout' = TRUE
    /\ UNCHANGED <<document, cursorLine, languageId, status,
                   inactiveDecorationsByCol, activeDecorationsByCol, shownInactive,
                   shownActive, indentColumns, visits, columnRanges,
                   activeIndentColumn, activeBlockStart, activeBlockEnd,
                   colorIndexes, threw, line, indent>>

NextEditor ==
    \/ Activate
    \/ \E c \in 0..(Len(document) - 1) : OnDidChangeTextEditorSelection(c)
    \/ \E doc \in Edits(document) : OnDidChangeTextDocument(doc)
    \/ \E colorList \in ColorLists, isEnabled \in BOOLEAN :
           OnDidChangeConfiguration(colorList, isEnabled)
    \/ TimerFires

SpecEditor == InitEditor /\ [][NextEditor]_vars

(***************************************************************************)
(* The indentation function on its own: every string over Chars up to      *)
(* MaxLineLen characters.                                                  *)
(***************************************************************************)
InitIndent ==
    /\ line \in Strings
    /\ indent = -1
    /\ document = <<>>
    /\ cursorLine = 0
    /\ colors = DefaultColors
    /\ enabled = TRUE
    /\ languageId = "yaml"
    /\ status = "inactive"
    /\ updateTimeout = FALSE
    /\ NothingComputed

CallGetEffectiveIndentColumn ==
    /\ indent = -1
    /\ indent' = getEffectiveIndentColumn(line)
    /\ UNCHANGED <<document, cursorLine, colors, enabled, languageId, status,
                   updateTimeout, lastColorsHash, inactiveDecorationsByCol,
                   activeDecorationsByCol, shownInactive, shownActive, indentColumns,
                   visits, columnRanges, activeIndentColumn, activeBlockStart,
                   activeBlockEnd, colorIndexes, threw, line>>

NextIndent == CallGetEffectiveIndentColumn

SpecIndent == InitIndent /\ [][NextIndent]_vars

(***************************************************************************)
(* Vocabulary of the properties, stated on the document itself.            *)
(***************************************************************************)
\* the locals observed are those of a run on the current document and cursor
Fresh == status # "inactive" /\ ~updateTimeout

LineNumbers == 0..(Len(document) - 1)

NonBlank(i) == \E n \in 1..Len(lineAt(document, i)) : lineAt(document, i)[n] \notin Whitespace

Col(i) == getEffectiveIndentColumn(lineAt(document, i))

NonBlankAfter(i) == {j \in LineNumbers : j > i /\ NonBlank(j)}

NonBlankBefore(i) == {j \in LineNumbers : j < i /\ NonBlank(j)}

Min(S) == CHOOSE x \in S : \A y \in S : x <= y

Max(S) == CHOOSE x \in S : \A y \in S : x >= y

\* a non-blank line whose next non-blank line is strictly deeper
HasChild(i) ==
    /\ NonBlank(i)
    /\ NonBlankAfter(i) # {}
    /\ Col(Min(NonBlankAfter(i))) > Col(i)

\* column of the nearest preceding non-blank line that is strictly shallower
ParentColumnOf(i) ==
    LET shallower == {j \in NonBlankBefore(i) : Col(j) < Col(i)}
    IN  IF shallower = {} THEN -1 ELSE Col(Max(shallower))

GuideLines(c) ==
    IF c \in DOMAIN columnRanges
    THEN {columnRanges[c][n].line : n \in 1..Len(columnRanges[c])}
    ELSE {}

CursorOnContent == cursorLine \in LineNumbers /\ NonBlank(cursorLine)

(***************************************************************************)
(* C1.  Whenever an active block is produced (activeIndentColumn >= 0),    *)
(* the active column is a key of columnRanges and every line of            *)
(* activeBlockStart..activeBlockEnd carries a guide range of that column,  *)
(* for every indentation width, odd columns included.                      *)
(***************************************************************************)
C1_ActiveSpanInGuides ==
    (Fresh /\ activeIndentColumn >= 0) =>
        /\ activeIndentColumn \in DOMAIN columnRanges
        /\ \A k \in activeBlockStart..activeBlockEnd :
               k \in GuideLines(activeIndentColumn)

(***************************************************************************)
(* C2.  Whenever the document has a line with a child, column 0 is a key   *)
(* of columnRanges.                                                        *)
(***************************************************************************)
C2_ColumnZeroIsKey ==
    (Fresh /\ \E i \in LineNumbers : HasChild(i)) => 0 \in DOMAIN columnRanges

\* C2 as amended: whenever the document has a line of effective column 0
\* with a child, column 0 is a key of columnRanges.
C2_ColumnZeroIsKeyUnderRootHead ==
    (Fresh /\ \E i \in LineNumbers : HasChild(i) /\ Col(i) = 0)
        => 0 \in DOMAIN columnRanges

C2_Witness ==
    /\ Fresh
    /\ \E i \in LineNumbers : HasChild(i) /\ Col(i) = 0
    /\ \E i \in LineNumbers : HasChild(i) /\ Col(i) > 0
    /\ 0 \in DOMAIN columnRanges

(***************************************************************************)
(* C3.  For every column, no line index receives more than one guide       *)
(* range: the blocks built at a column are pairwise disjoint, blank lines  *)
(* between one block and the next head included.                           *)
(***************************************************************************)
C3_BlocksDisjoint ==
    Fresh => \A c \in DOMAIN columnRanges :
                 \A m, n \in 1..Len(columnRanges[c]) :
                     columnRanges[c][m].line = columnRanges[c][n].line => m = n

\* two heads at one column, the first block ending in a blank line
C3_Witness ==
    /\ Fresh
    /\ \E c \in DOMAIN columnRanges : \E h1, h2, b \in LineNumbers :
          /\ h1 < b /\ b < h2
          /\ NonBlank(h1) /\ Col(h1) = c
          /\ NonBlank(h2) /\ Col(h2) = c
          /\ ~NonBlank(b)
          /\ {b, h2 + 1} \subseteq GuideLines(c)

(***************************************************************************)
(* C4.  For a cursor on a non-blank line of the document: the active       *)
(* column is the cursor line's own effective column when the line has      *)
(* nested content, and otherwise its parent column (no active block, -1,   *)
(* when there is no parent).                                               *)
(***************************************************************************)
C4_ActiveColumn ==
    (Fresh /\ CursorOnContent) =>
        activeIndentColumn = IF HasChild(cursorLine) THEN Col(cursorLine)
                             ELSE ParentColumnOf(cursorLine)

(***************************************************************************)
(* C5.  The structural columns are exactly 0 together with the parent      *)
(* columns of the non-blank lines, and the ancestor walk runs its body at  *)
(* most once per line.                                                     *)
(***************************************************************************)
C5_StructuralColumns ==
    Fresh =>
        /\ indentColumns =
               {0} \cup {ParentColumnOf(i) :
                            i \in {j \in LineNumbers :
                                      NonBlank(j) /\ ParentColumnOf(j) >= 0}}
        /\ visits <= Len(document)
        /\ visits = Cardinality({j \in LineNumbers : NonBlank(j)})

\* three levels of nesting with two distinct parent columns other than the root's
C5_Witness ==
    /\ Fresh
    /\ Cardinality(indentColumns) >= 3
    /\ \E i \in LineNumbers : NonBlank(i) /\ ParentColumnOf(i) > 0
    /\ visits = Len(document)

(***************************************************************************)
(* C6.  getEffectiveIndentColumn is the sum over the leading run of spaces *)
(* and tabs (space 1, tab 4); a list marker is never counted, so n spaces  *)
(* followed by "- " give n; and one more leading space never lowers it.    *)
(***************************************************************************)
LeadingRun(text) ==
    {k \in 1..Len(text) : \A i \in 1..k : text[i] \in Whitespace}

LeadingSum(text) ==
    Cardinality({k \in LeadingRun(text) : text[k] = " "})
        + 4 * Cardinality({k \in LeadingRun(text) : text[k] = "\t"})

C6_EffectiveColumn ==
    indent >= 0 =>
        /\ indent = LeadingSum(line)
        /\ \A n \in 0..Len(line) :
               (/\ n + 2 <= Len(line)
                /\ \A i \in 1..n : line[i] = " "
                /\ line[n + 1] = "-"
                /\ line[n + 2] = " ") => indent = n
        /\ getEffectiveIndentColumn(<<" ">> \o line) >= indent

C6_Witness ==
    /\ line = <<" ", " ", "-", " ", "a">>
    /\ indent = 2

(***************************************************************************)
(* C7.  Absence of an active block is a value: an empty document gives no  *)
(* ranges and activeIndentColumn -1; a cursor line that is negative, past  *)
(* the last line or blank gives activeIndentColumn -1 and no span; and a   *)
(* run after a cursor move leaves columnRanges as it was.                  *)
(***************************************************************************)
C7_NoActiveBlock ==
    Fresh =>
        /\ Len(document) = 0 => columnRanges = EmptyMap /\ activeIndentColumn = -1
        /\ ~CursorOnContent =>
               /\ activeIndentColumn = -1
               /\ activeBlockStart = -1
               /\ activeBlockEnd = -1

C7_RangesIgnoreCursor ==
    (updateTimeout /\ ~updateTimeout') => columnRanges' = columnRanges

C7_TotalOnCursor == []C7_NoActiveBlock /\ [][C7_RangesIgnoreCursor]_vars

\* the cursor on a line of two spaces inside the block of a root line
C7_Witness ==
    /\ Fresh
    /\ status = "active"
    /\ cursorLine \in LineNumbers
    /\ lineAt(document, cursorLine) = <<" ", " ">>
    /\ cursorLine \in GuideLines(0)
    /\ activeIndentColumn = -1

(***************************************************************************)
(* C8.  For every structural column c the lines carrying a guide range at  *)
(* c are exactly the lines h+1..blockEnd(h) of the non-blank lines h of    *)
(* column c, blockEnd(h) being the line before the first non-blank line    *)
(* after h of column <= c (or the last line).  So a head carries no guide  *)
(* of its own column and a non-blank line under a guide at c is deeper     *)
(* than c.                                                                 *)
(***************************************************************************)
BlockEndOf(h, c) ==
    LET stops == {j \in NonBlankAfter(h) : Col(j) <= c}
    IN  IF stops = {} THEN Len(document) - 1 ELSE Min(stops) - 1

BlockLines(c) ==
    UNION {(h + 1)..BlockEndOf(h, c) :
              h \in {i \in LineNumbers : NonBlank(i) /\ Col(i) = c}}

C8_GuidesAreBlocks ==
    Fresh =>
        /\ DOMAIN columnRanges \subseteq indentColumns
        /\ \A c \in indentColumns : GuideLines(c) = BlockLines(c)
        /\ \A c \in DOMAIN columnRanges : \A n \in 1..Len(columnRanges[c]) :
               /\ columnRanges[c][n].start = c
               /\ NonBlank(columnRanges[c][n].line) => Col(columnRanges[c][n].line) > c

\* a block that holds a deeper line, an interior and a trailing blank line
C8_Witness ==
    /\ Fresh
    /\ \E c \in DOMAIN columnRanges : \E h \in LineNumbers :
          /\ NonBlank(h) /\ Col(h) = c
          /\ BlockEndOf(h, c) >= h + 3
          /\ ~NonBlank(h + 1) /\ NonBlank(h + 2) /\ ~NonBlank(h + 3)
          /\ (h + 1)..(h + 3) \subseteq GuideLines(c)
          /\ h \notin GuideLines(c)

(***************************************************************************)
(* C9.  When an active block exists its span is the maximal run around the *)
(* cursor deeper than activeIndentColumn, blank lines never ending it.     *)
(* Cursor on a parent: the span starts at cursor+1 and ends at the last    *)
(* non-blank line before the first following non-blank line of column <=   *)
(* activeIndentColumn.  Otherwise the span runs from the cursor backward   *)
(* and forward over the non-blank lines, up to and excluding the first     *)
(* non-blank line of column <= activeIndentColumn on each side.  The two   *)
(* documents of the scenarios give (1,3) and column 0 with (1,2).          *)
(***************************************************************************)
StopsAfter(i, c) == {j \in NonBlankAfter(i) : Col(j) <= c}

StopsBefore(i, c) == {j \in NonBlankBefore(i) : Col(j) <= c}

\* the non-blank lines after i and before the first stop
RunAfter(i, c) ==
    {j \in NonBlankAfter(i) : StopsAfter(i, c) # {} => j < Min(StopsAfter(i, c))}

\* the non-blank lines before i and after the last stop
RunBefore(i, c) ==
    {j \in NonBlankBefore(i) : StopsBefore(i, c) # {} => j > Max(StopsBefore(i, c))}

ScenarioBlankInside == <<<<"a">>, <<" ", " ", "-", " ", "a">>, <<>>,
                         <<" ", " ", "-", " ", "a">>>>

ScenarioListItems == <<<<"a">>, <<" ", " ", "-", " ", "a">>,
                       <<" ", " ", "-", " ", "a">>, <<"a">>>>

C9_ActiveSpan ==
    Fresh =>
        /\ activeIndentColumn >= 0 =>
               IF HasChild(cursorLine)
               THEN /\ activeBlockStart = cursorLine + 1
                    /\ activeBlockEnd = Max(RunAfter(cursorLine, activeIndentColumn))
               ELSE /\ activeBlockStart =
                           Min({cursorLine} \cup RunBefore(cursorLine, activeIndentColumn))
                    /\ activeBlockEnd =
                           Max({cursorLine} \cup RunAfter(cursorLine, activeIndentColumn))
        /\ (document = ScenarioBlankInside /\ cursorLine = 0) =>
               <<activeBlockStart, activeBlockEnd>> = <<1, 3>>
        /\ (document = ScenarioListItems /\ cursorLine = 1) =>
               <<activeIndentColumn, activeBlockStart, activeBlockEnd>> = <<0, 1, 2>>

\* a childless cursor line whose span reaches back across a blank line
C9_Witness ==
    /\ Fresh
    /\ activeIndentColumn >= 0
    /\ CursorOnContent
    /\ ~HasChild(cursorLine)
    /\ cursorLine >= 2
    /\ ~NonBlank(cursorLine - 1)
    /\ activeIndentColumn = ParentColumnOf(cursorLine)
    /\ activeBlockStart < cursorLine - 1
    /\ activeBlockEnd = cursorLine

(***************************************************************************)
(* C10.  For every column that has guide ranges the colour index           *)
(* (column/2) mod colors.length is an integer of 0..colors.length-1, so    *)
(* the column gets a configured colour and creating its decoration does    *)
(* not fail, odd columns included.                                         *)
(***************************************************************************)
C10_ColorIndexIsIndex ==
    Fresh =>
        /\ ~threw
        /\ \A c \in DOMAIN columnRanges :
               /\ c \in DOMAIN colorIndexes
               /\ colorIndexes[c].den = 1
               /\ colorIndexes[c].num \in 0..(Len(colors) - 1)
               /\ c \in DOMAIN inactiveDecorationsByCol
               /\ inactiveDecorationsByCol[c].backgroundColor
                      \in {colors[n] : n \in 1..Len(colors)}

(***************************************************************************)
(* C11.  After any sequence of edits, cursor moves and configuration       *)
(* changes, once updateDecorations has run to its end on an enabled YAML   *)
(* editor, the display is that of the latest computation: columnRanges is  *)
(* that of the current document; for each of its columns the ranges are    *)
(* split into the active ones (column = activeIndentColumn, line within    *)
(* the active span) and the inactive ones, disjoint and together all the   *)
(* ranges of the column; every cached decoration of a column without       *)
(* ranges displays nothing; so every guide displayed is a guide of the     *)
(* current document.                                                       *)
(***************************************************************************)
Completed ==
    /\ status = "active"
    /\ ~updateTimeout
    /\ enabled
    /\ languageId = "yaml"
    /\ ~threw

Elems(seq) == {seq[n] : n \in 1..Len(seq)}

InActiveSpan(r, c) ==
    /\ c = activeIndentColumn
    /\ r.line \in activeBlockStart..activeBlockEnd

Displayed(c) ==
    (IF c \in DOMAIN shownInactive THEN Elems(shownInactive[c]) ELSE {})
        \cup (IF c \in DOMAIN shownActive THEN Elems(shownActive[c]) ELSE {})

====
